---- MODULE Spec2Model ----
(***************************************************************************)
(* A model of news_collector.py: the batch run of main() over the          *)
(* configured feeds, with the retry/backoff loop of                         *)
(* summarize_text_with_gemini, the digest assembly and the mail dispatch.   *)
(*                                                                          *)
(* Strings of the program are modelled as sequences of tokens: an f-string  *)
(* is the concatenation of its literal pieces and its interpolated values,  *)
(* and the message of an exception is the sequence of its words.  The       *)
(* Japanese literals of the source are written by an ASCII name.            *)
(***************************************************************************)
EXTENDS Integers, Sequences, FiniteSets, TLC

(* ------------------------------------------------------------------ *)
(* Program constants.                                                  *)
(* ------------------------------------------------------------------ *)

\* FEEDS: the display names of the configured feeds, in configured order.
FEEDS == <<"Hacker News", "TechCrunch", "The Verge">>

MAX_ENTRIES_PER_FEED == 3

\* The locals of summarize_text_with_gemini.
retries == 3

backoff_factor == 5

\* wait_time = 60, the fixed wait of a rate-limit error without a parsable delay.
FallbackWait == 60

\* A plausible slip: the pacing wait is the backoff base.
PacingWait_Short == backoff_factor

\* time.sleep(31), the pacing wait of main after each record.
PacingWait == 31

(* ------------------------------------------------------------------ *)
(* Bounds of the model.                                                *)
(* ------------------------------------------------------------------ *)

\* A parsed feed holds 0..MaxFeedEntries entries.
MaxFeedEntries == 4

\* A run processes at most MaxRecords entries over all its feeds.
MaxRecords == 3

\* The backend fails at most MaxFailures requests of a run (an empty response
\* or an exception); every other request gets a response with content.
MaxFailures == 3

\* The largest retry delay a rate-limit error suggests, in seconds.
MaxRetryDelay == 17

\* The retry delays a rate-limit error may suggest.
RetryDelays == {MaxRetryDelay}

(* ------------------------------------------------------------------ *)
(* Values.                                                             *)
(* ------------------------------------------------------------------ *)

\* Python's None: the value of a local that is not bound.
None == <<"None">>

\* The article text get_article_text returns: "" on any failure.
EmptyText == <<>>

ArticleBody == <<"article body">>

ArticleTexts == {EmptyText, ArticleBody}

\* The literal messages of summarize_text_with_gemini.
MSG_NO_BODY == <<"The article body could not be retrieved.">>

MSG_FAILED == <<"Failed to generate the summary: ">>

MSG_NO_VALID_RESPONSE == <<"No valid response from Gemini. Reason: ">>

MSG_API_ERROR == <<"Gemini API error: ">>

MSG_RETRY_LIMIT == <<"Failed to generate the summary (retry limit exceeded).">>

REASON_UNKNOWN == "unknown"

\* A response of model.generate_content: its content parts (each a piece of
\* text) and the block reason of its prompt feedback; "raises" when reading
\* response.prompt_feedback.block_reason raises.
Responses ==
    { [kind |-> "response", parts |-> <<"point 1", "\n", "point 2">>,
        block_reason |-> "raises"],
      [kind |-> "response", parts |-> <<>>, block_reason |-> "SAFETY"],
      [kind |-> "response", parts |-> <<>>, block_reason |-> "raises"] }

\* str(e) of a rate-limit error carrying a retry delay of d seconds.
RateLimitErrorWithDelay(d) ==
    <<"429", "Resource exhausted", "retry_delay {", "seconds: ", ToString(d), "}">>

\* str(e) of the exceptions model.generate_content may raise.
ErrorTexts ==
    { RateLimitErrorWithDelay(d) : d \in RetryDelays }
      \cup { <<"429", "Resource exhausted">>,
             <<"500", "Internal error">> }

Errors == { [kind |-> "error", str |-> s] : s \in ErrorTexts }

\* What one call of model.generate_content may do.
Outcomes == Responses \cup Errors

\* No request has been made in the current call.
NoOutcome == [kind |-> "none"]

\* No digest has been built.
NoDigest == [title |-> "none", blocks |-> <<>>]

\* The outcomes of sg.send: the status code of the response, or an exception.
TransportOutcomes == {"202", "raises"}

(* ------------------------------------------------------------------ *)
(* Helpers: Python's string and sequence operations.                   *)
(* ------------------------------------------------------------------ *)

Min(a, b) == IF a <= b THEN a ELSE b

\* tok in s
Contains(s, tok) == \E k \in 1..Len(s) : s[k] = tok

\* \d+ : the token is a decimal numeral.
IsDigits(tok) == \E n \in 0..MaxRetryDelay : ToString(n) = tok

\* int(tok) of a decimal numeral.
IntOf(tok) == CHOOSE n \in 0..MaxRetryDelay : ToString(n) = tok

\* re.search(r"retry_delay {\s*seconds: (\d+)\s*}", s): the groups of the
\* first match, <<>> when there is none.
RetryDelayMatch(s) ==
    LET hits == { k \in 1..(Len(s) - 3) :
                    /\ s[k] = "retry_delay {"
                    /\ s[k + 1] = "seconds: "
                    /\ IsDigits(s[k + 2])
                    /\ s[k + 3] = "}" }
        first == CHOOSE k \in hits : \A h \in hits : k <= h
    IN  IF hits = {} THEN <<>> ELSE <<s[first + 2]>>

\* A plausible slip: the slice is left out.
FirstN_All(seq, n) == seq

\* seq[:n]
FirstN(seq, n) == SubSeq(seq, 1, Min(Len(seq), n))

(* ------------------------------------------------------------------ *)
(* summarize_text_with_gemini: one iteration of the retry loop.        *)
(* ------------------------------------------------------------------ *)

\* A plausible slip: the check of the empty text is left out.
TextMissing_Never(text) == FALSE

\* not text
TextMissing(text) == text = EmptyText

\* What an iteration of the loop does: it returns a value, goes on to the
\* next index, or lets an exception escape (main catches none, so the run
\* ends there); sleeps are its time.sleep calls.
Return(v) == [ctl |-> "return", value |-> v, sleeps |-> <<>>]

\* A plausible slip: the loop goes on without its time.sleep.
Continue_NoSleep(w) == [ctl |-> "continue", value |-> None, sleeps |-> <<>>]

Continue(w) == [ctl |-> "continue", value |-> None, sleeps |-> <<w>>]

Raise == [ctl |-> "raise", value |-> None, sleeps |-> <<>>]

\* A plausible slip: the exponent counts attempts from one.
BackoffDelay_FromOne(i) == backoff_factor * (2 ^ (i + 1))

\* A plausible slip: the exponent is left out.
BackoffDelay_Constant(i) == backoff_factor

\* backoff_factor * (2 ** i)
BackoffDelay(i) == backoff_factor * (2 ^ i)

\* A plausible slip: the text of the first part alone.
ResponseText_FirstPart(r) == <<r.parts[1]>>

\* response.text: the text of the content parts.
ResponseText(r) == r.parts

\* finish_reason: the block reason, "unknown" when reading it raises.
FinishReason(r) ==
    IF r.block_reason = "raises" THEN REASON_UNKNOWN ELSE r.block_reason

\* A plausible slip: the bound of the last attempt is off by one, so the
\* branch never returns.
EmptyResponseStep_OffByOne(i, r) ==
    IF i < retries THEN Continue(BackoffDelay(i)) ELSE Return(MSG_FAILED)

\* The else branch of "if response.parts": the response is empty.
EmptyResponseStep(i, r) ==
    LET error_message == MSG_NO_VALID_RESPONSE \o <<FinishReason(r)>>
    IN  IF i < retries - 1
        THEN Continue(BackoffDelay(i))
        ELSE Return(MSG_FAILED \o error_message)

\* A plausible slip: the one-second margin is left out.
RateLimitWait_NoMargin(s) ==
    LET match == RetryDelayMatch(s)
    IN  IF match # <<>> THEN IntOf(match[1]) ELSE FallbackWait

\* wait_time of the "429" branch: the parsed delay plus one, else 60.
RateLimitWait(s) ==
    LET match == RetryDelayMatch(s)
    IN  IF match # <<>> THEN IntOf(match[1]) + 1 ELSE FallbackWait

\* "429" in str(e)
IsRateLimit(s) == Contains(s, "429")

\* A plausible slip: the last attempt's error is raised again, not returned.
ExceptStep_Reraise(i, e) ==
    IF IsRateLimit(e.str)
    THEN Continue(RateLimitWait(e.str))
    ELSE IF i < retries - 1 THEN Continue(BackoffDelay(i)) ELSE Raise

\* A plausible slip: the last attempt's error is returned after one more
\* backoff wait.
ExceptStep_WaitBeforeFail(i, e) ==
    IF IsRateLimit(e.str)
    THEN Continue(RateLimitWait(e.str))
    ELSE IF i < retries - 1
         THEN Continue(BackoffDelay(i))
         ELSE [ctl |-> "return", value |-> MSG_FAILED \o MSG_API_ERROR \o e.str,
               sleeps |-> <<BackoffDelay(i)>>]

\* A variant: the rate-limit wait is skipped when no attempt is left.
ExceptStep_NoWaitOnLast(i, e) ==
    IF IsRateLimit(e.str)
    THEN IF i < retries - 1
         THEN Continue(RateLimitWait(e.str))
         ELSE [ctl |-> "continue", value |-> None, sleeps |-> <<>>]
    ELSE IF i < retries - 1
         THEN Continue(BackoffDelay(i))
         ELSE Return(MSG_FAILED \o MSG_API_ERROR \o e.str)

\* The except branch: generate_content (or reading the response) raised e.
ExceptStep(i, e) ==
    LET error_message == MSG_API_ERROR \o e.str
    IN  IF IsRateLimit(e.str)
        THEN Continue(RateLimitWait(e.str))
        ELSE IF i < retries - 1
             THEN Continue(BackoffDelay(i))
             ELSE Return(MSG_FAILED \o error_message)

\* The body of "for i in range(retries)" on the outcome o of the request.
LoopBody(i, o) ==
    IF o.kind = "response"
    THEN IF o.parts # <<>>
         THEN Return(ResponseText(o))
         ELSE EmptyResponseStep(i, o)
    ELSE ExceptStep(i, o)

\* The backend failed the request: an exception, or a response without parts.
Failed(o) == o.kind = "error" \/ o.parts = <<>>

\* How an attempt ended, as the loop body tells the outcomes apart.
Class(o) ==
    IF o.kind = "response"
    THEN IF o.parts # <<>> THEN "response" ELSE "empty"
    ELSE IF IsRateLimit(o.str) THEN "rate limit" ELSE "error"

\* A plausible slip: a rate-limit wait is followed by a retry of the same index.
NextIndex_RepeatOnRateLimit(i, o) ==
    IF Class(o) = "rate limit" THEN i ELSE i + 1

\* A plausible slip: a while loop whose index is never advanced.
NextIndex_Stuck(i, o) == i

\* for i in range(retries): the index after index i, whose request got o.
NextIndex(i, o) == i + 1

(* ------------------------------------------------------------------ *)
(* build_html_content and send_email.                                  *)
(* ------------------------------------------------------------------ *)

\* item['summary'].replace('\n', '<br>')
ReplaceNewlines(text) ==
    [k \in 1..Len(text) |-> IF text[k] = "\n" THEN "<br>" ELSE text[k]]

\* The block of one record: heading with link and title, source, summary.
RecordBlock(item) ==
    [link |-> item.link, title |-> item.title, source |-> item.source,
     summary |-> ReplaceNewlines(item.summary)]

\* A plausible slip: each block is put before the ones built so far.
build_html_content_Reversed(summaries) ==
    [title |-> "news summary",
     blocks |-> [k \in 1..Len(summaries) |->
                   RecordBlock(summaries[Len(summaries) + 1 - k])]]

\* build_html_content: the title, then one block per record in input order.
build_html_content(summaries) ==
    [title |-> "news summary",
     blocks |-> [k \in 1..Len(summaries) |-> RecordBlock(summaries[k])]]

\* A plausible slip: the recipient is left out of the settings check.
send_email_NoRecipientCheck(key, to, from, transport) ==
    IF ~(key /\ from)
    THEN [calls |-> 0, ctl |-> "return", sent |-> "not called"]
    ELSE IF transport = "raises"
         THEN [calls |-> 1, ctl |-> "return", sent |-> "raised"]
         ELSE [calls |-> 1, ctl |-> "return", sent |-> "202"]

\* A plausible slip: sg.send is called outside the try.
send_email_NoCatch(key, to, from, transport) ==
    IF ~(key /\ to /\ from)
    THEN [calls |-> 0, ctl |-> "return", sent |-> "not called"]
    ELSE IF transport = "raises"
         THEN [calls |-> 1, ctl |-> "raise", sent |-> "raised"]
         ELSE [calls |-> 1, ctl |-> "return", sent |-> "202"]

\* send_email: the number of sg.send calls it makes, how the call ended and
\* how send_email itself ends, given the mail settings and what the transport
\* does on send.
send_email(key, to, from, transport) ==
    IF ~(key /\ to /\ from)
    THEN [calls |-> 0, ctl |-> "return", sent |-> "not called"]
    ELSE IF transport = "raises"
         THEN [calls |-> 1, ctl |-> "return", sent |-> "raised"]
         ELSE [calls |-> 1, ctl |-> "return", sent |-> "202"]

(* ------------------------------------------------------------------ *)
(* State.                                                              *)
(* ------------------------------------------------------------------ *)

VARIABLES
    GEMINI_API_KEY,    \* the environment variable is set and not empty
    SENDGRID_API_KEY,
    TO_EMAIL,
    FROM_EMAIL,
    pc,                \* the position of the run
    all_summaries,     \* main: the records collected so far
    feedIdx,           \* main: the index in FEEDS of the feed being processed
    parsed,            \* the number of entries of each feed parsed so far
    entries,           \* main: feed.entries[:MAX_ENTRIES_PER_FEED]
    entryIdx,          \* main: the index in entries of the entry being processed
    article_text,      \* main: the text of the current article
    i,                 \* summarize_text_with_gemini: the attempt index
    summary,           \* the value summarize_text_with_gemini returned
    requests,          \* the generate_content calls of the current call
    waits,             \* the time.sleep calls of the current call, in order
    outcome,           \* the outcome of the last generate_content call
    attempts,          \* how each attempt of the current call ended, in order
    fetches,           \* the get_article_text calls of the run
    pacing,            \* the time.sleep calls of main, in order
    lastNet,           \* "none", or the later of the last request and the last sleep
    failures,          \* the requests of the run the backend has failed
    html,              \* main: the digest built by build_html_content
    dispatched,        \* the html_content of each send_email call, in order
    sendCalls,         \* the sg.send calls of the run
    sendResult         \* how the sg.send call of send_email ended

env == <<GEMINI_API_KEY, SENDGRID_API_KEY, TO_EMAIL, FROM_EMAIL>>

loopVars == <<all_summaries, feedIdx, parsed, entries, entryIdx>>

callVars == <<article_text, i, summary, requests, waits, outcome, attempts>>

mailVars == <<html, dispatched, sendCalls, sendResult>>

vars ==
    <<env, pc, loopVars, callVars, fetches, pacing, lastNet, failures, mailVars>>

\* The entries of a parsed feed with n entries, in the feed's order.
FeedEntries(n) == [k \in 1..n |-> [title |-> k, link |-> k]]

Init ==
    /\ GEMINI_API_KEY \in BOOLEAN
    /\ SENDGRID_API_KEY \in BOOLEAN
    /\ TO_EMAIL \in BOOLEAN
    /\ FROM_EMAIL \in BOOLEAN
    /\ pc = "main"
    /\ all_summaries = <<>>
    /\ feedIdx = 0
    /\ parsed = <<>>
    /\ entries = <<>>
    /\ entryIdx = 0
    /\ article_text = None
    /\ i = 0
    /\ summary = None
    /\ requests = 0
    /\ waits = <<>>
    /\ outcome = NoOutcome
    /\ attempts = <<>>
    /\ fetches = 0
    /\ pacing = <<>>
    /\ lastNet = "none"
    /\ failures = 0
    /\ html = NoDigest
    /\ dispatched = <<>>
    /\ sendCalls = 0
    /\ sendResult = "none"

(* ------------------------------------------------------------------ *)
(* main.                                                               *)
(* ------------------------------------------------------------------ *)

\* A plausible slip: the credential check is left out.
CredentialMissing_Never(key) == FALSE

\* not GEMINI_API_KEY
CredentialMissing(key) == ~key

\* The credential check at the start of main.
MainStart ==
    /\ pc = "main"
    /\ pc' = IF CredentialMissing(GEMINI_API_KEY) THEN "aborted" ELSE "feeds"
    /\ feedIdx' = IF CredentialMissing(GEMINI_API_KEY) THEN feedIdx ELSE 1
    /\ UNCHANGED <<env, all_summaries, parsed, entries, entryIdx, callVars,
                   fetches, pacing, lastNet, failures, mailVars>>

\* for name, url in FEEDS.items(): feed = feedparser.parse(url), or the end
\* of the loop.
ParseFeed ==
    /\ pc = "feeds"
    /\ IF feedIdx <= Len(FEEDS)
       THEN \E n \in 0..MaxFeedEntries :
              /\ Len(all_summaries) + Min(n, MAX_ENTRIES_PER_FEED) <= MaxRecords
              /\ parsed' = Append(parsed, n)
              /\ entries' = FirstN(FeedEntries(n), MAX_ENTRIES_PER_FEED)
              /\ entryIdx' = 1
              /\ pc' = "entries"
       ELSE /\ pc' = "assemble"
            /\ UNCHANGED <<parsed, entries, entryIdx>>
    /\ UNCHANGED <<env, all_summaries, feedIdx, callVars, fetches, pacing,
                   lastNet, failures, mailVars>>

\* for entry in feed.entries[:MAX_ENTRIES_PER_FEED]: the next entry, or the
\* next feed.
NextEntry ==
    /\ pc = "entries"
    /\ IF entryIdx <= Len(entries)
       THEN /\ pc' = "extract"
            /\ UNCHANGED feedIdx
       ELSE /\ pc' = "feeds"
            /\ feedIdx' = feedIdx + 1
    /\ UNCHANGED <<env, all_summaries, parsed, entries, entryIdx, callVars,
                   fetches, pacing, lastNet, failures, mailVars>>

\* article_text = get_article_text(entry.link): the text, "" on any failure.
GetArticleText ==
    /\ pc = "extract"
    /\ \E text \in ArticleTexts : article_text' = text
    /\ fetches' = fetches + 1
    /\ pc' = "summarize"
    /\ UNCHANGED <<env, loopVars, i, summary, requests, waits, outcome,
                   attempts, pacing, lastNet, failures, mailVars>>

\* The call of summarize_text_with_gemini up to its loop.
SummarizeBegin ==
    /\ pc = "summarize"
    /\ IF TextMissing(article_text)
       THEN /\ summary' = MSG_NO_BODY
            /\ pc' = "returned"
       ELSE /\ summary' = None
            /\ pc' = "attempt"
    /\ i' = 0
    /\ requests' = 0
    /\ waits' = <<>>
    /\ outcome' = NoOutcome
    /\ attempts' = <<>>
    /\ UNCHANGED <<env, loopVars, article_text, fetches, pacing, lastNet,
                   failures, mailVars>>

\* One iteration of the retry loop: the request, its outcome, and what the
\* loop body does with it; after the last index the loop falls through to the
\* final return.
Attempt ==
    /\ pc = "attempt"
    /\ \E o \in Outcomes :
         LET step == LoopBody(i, o)
         IN  /\ Failed(o) => failures < MaxFailures
             /\ failures' = IF Failed(o) THEN failures + 1 ELSE failures
             /\ outcome' = o
             /\ attempts' = Append(attempts, Class(o))
             /\ requests' = requests + 1
             /\ waits' = waits \o step.sleeps
             /\ lastNet' = IF step.sleeps # <<>> THEN "sleep" ELSE "request"
             /\ IF step.ctl = "return"
                THEN /\ summary' = step.value
                     /\ pc' = "returned"
                     /\ UNCHANGED i
                ELSE IF step.ctl = "raise"
                THEN /\ pc' = "summarize raised"
                     /\ UNCHANGED <<i, summary>>
                ELSE IF NextIndex(i, o) < retries
                THEN /\ i' = NextIndex(i, o)
                     /\ pc' = "attempt"
                     /\ UNCHANGED summary
                ELSE /\ summary' = MSG_RETRY_LIMIT
                     /\ pc' = "returned"
                     /\ UNCHANGED i
    /\ UNCHANGED <<env, loopVars, article_text, fetches, pacing, mailVars>>

\* A plausible slip: the pacing wait is made only after an entry that was
\* sent to the backend.
PacingSleeps_OnlyAfterRequest(record) ==
    IF record.summary = MSG_NO_BODY THEN <<>> ELSE <<PacingWait>>

\* The sleeps of main after it appended the record: time.sleep(31), whatever
\* the record.
PacingSleeps(record) == <<PacingWait>>

\* The record main appends for the current entry.
Record(name, entry, s) ==
    [source |-> name, title |-> entry.title, link |-> entry.link, summary |-> s]

\* all_summaries.append({...}) with the returned summary.
AppendRecord ==
    /\ pc = "returned"
    /\ all_summaries' =
         Append(all_summaries, Record(FEEDS[feedIdx], entries[entryIdx], summary))
    /\ pc' = "pace"
    /\ article_text' = None
    /\ i' = 0
    /\ summary' = None
    /\ requests' = 0
    /\ waits' = <<>>
    /\ outcome' = NoOutcome
    /\ attempts' = <<>>
    /\ UNCHANGED <<env, feedIdx, parsed, entries, entryIdx, fetches, pacing,
                   lastNet, failures, mailVars>>

\* time.sleep(31) after the record.
Pace ==
    /\ pc = "pace"
    /\ pacing' = pacing \o PacingSleeps(all_summaries[Len(all_summaries)])
    /\ lastNet' = IF PacingSleeps(all_summaries[Len(all_summaries)]) # <<>>
                  THEN "sleep"
                  ELSE lastNet
    /\ entryIdx' = entryIdx + 1
    /\ pc' = "entries"
    /\ UNCHANGED <<env, all_summaries, feedIdx, parsed, entries, callVars,
                   fetches, failures, mailVars>>

\* if all_summaries: html = build_html_content(all_summaries); else nothing.
Assemble ==
    /\ pc = "assemble"
    /\ IF all_summaries # <<>>
       THEN /\ html' = build_html_content(all_summaries)
            /\ pc' = "send"
       ELSE /\ pc' = "complete"
            /\ UNCHANGED html
    /\ UNCHANGED <<env, loopVars, callVars, fetches, pacing, lastNet,
                   failures, dispatched, sendCalls, sendResult>>

\* send_email(html)
SendEmail ==
    /\ pc = "send"
    /\ \E transport \in TransportOutcomes :
         LET r == send_email(SENDGRID_API_KEY, TO_EMAIL, FROM_EMAIL, transport)
         IN  /\ sendCalls' = sendCalls + r.calls
             /\ sendResult' = r.sent
             /\ dispatched' = Append(dispatched, html)
             /\ pc' = IF r.ctl = "raise" THEN "send raised" ELSE "complete"
    /\ UNCHANGED <<env, loopVars, callVars, fetches, pacing, lastNet,
                   failures, html>>

\* The last statement of main.
Complete ==
    /\ pc = "complete"
    /\ pc' = "done"
    /\ UNCHANGED <<env, loopVars, callVars, fetches, pacing, lastNet, failures, mailVars>>

Next ==
    \/ MainStart
    \/ ParseFeed
    \/ NextEntry
    \/ GetArticleText
    \/ SummarizeBegin
    \/ Attempt
    \/ AppendRecord
    \/ Pace
    \/ Assemble
    \/ SendEmail
    \/ Complete

Spec == Init /\ [][Next]_vars

\* send_email reads the three mail settings only through all([...]): a run
\* with one of them missing takes the same steps as a run with all of them
\* missing.
FairInit ==
    /\ Init
    /\ SENDGRID_API_KEY = TO_EMAIL
    /\ TO_EMAIL = FROM_EMAIL

\* The run is one sequential thread whose calls all return or raise: as long
\* as main has a next statement, it is executed.  The runs start from one
\* setting of the mail variables for each outcome of the test at line 150.
FairSpec == FairInit /\ [][Next]_vars /\ WF_vars(Next)

(* ------------------------------------------------------------------ *)
(* Properties.                                                         *)
(* ------------------------------------------------------------------ *)

\* The call of summarize_text_with_gemini has returned to main.
Returned == pc = "returned"

\* Every attempt of the current call ended in class c.
AllAttempts(c) ==
    /\ attempts # <<>>
    /\ \A k \in 1..Len(attempts) : attempts[k] = c

\* The failure message of an empty response with finish reason r.
EmptyFailure(r) == MSG_FAILED \o MSG_NO_VALID_RESPONSE \o <<r>>

\* C1: whatever the text and whatever the backend does on each attempt, no
\* exception escapes summarize_text_with_gemini, and the value it returns is
\* a non-empty string.
C1_NeverRaisesNonEmpty ==
    /\ pc # "summarize raised"
    /\ Returned => summary # None /\ Len(summary) > 0

\* C1 witness: a call returned after an error, an empty response and a
\* rate-limit error.
C1_Witness ==
    /\ Returned
    /\ attempts = <<"error", "empty", "rate limit">>

\* C2 as stated: when every attempt gets an empty response, the call makes
\* exactly retries requests and returns the fixed retry-limit message.
C2_Original ==
    (Returned /\ AllAttempts("empty")) =>
        requests = retries /\ summary = MSG_RETRY_LIMIT

\* C2 amended: when every attempt gets an empty response, the call makes
\* exactly retries requests, waits 5 then 10 seconds between them, and returns
\* the failure message that embeds the finish reason of the last response
\* (its block reason, "unknown" when that cannot be read).
C2_EmptyExhausted ==
    (Returned /\ AllAttempts("empty")) =>
        /\ requests = retries
        /\ waits = <<5, 10>>
        /\ outcome.block_reason = "SAFETY" => summary = EmptyFailure("SAFETY")
        /\ outcome.block_reason = "raises" => summary = EmptyFailure(REASON_UNKNOWN)

\* C2 witness: three empty responses, the last one blocked for safety.
C2_Witness ==
    /\ Returned
    /\ attempts = <<"empty", "empty", "empty">>
    /\ summary = EmptyFailure("SAFETY")

\* C3: a call issues at most retries requests, and every attempt, a
\* rate-limited one included, uses up one index: the attempt at index i is
\* the (i+1)-th request of the call, so no index is tried twice.
C3_RetryBudget ==
    /\ requests <= retries
    /\ pc = "attempt" => i = requests /\ i < retries
    /\ Returned => requests = Len(attempts)

\* C3 witness: the third attempt is about to be made after two rate-limit
\* errors.
C3_Witness ==
    /\ pc = "attempt"
    /\ i = 2
    /\ attempts = <<"rate limit", "rate limit">>

\* C4: on an empty text the call returns the fixed "no body" message, with no
\* request to the backend and no wait.
C4_EmptyText ==
    (Returned /\ article_text = EmptyText) =>
        /\ summary = MSG_NO_BODY
        /\ requests = 0
        /\ waits = <<>>
        /\ attempts = <<>>

\* C4 witness: the call returned on an empty text.
C4_Witness ==
    /\ Returned
    /\ article_text = EmptyText
    /\ summary = MSG_NO_BODY

\* The first attempt of the current call failed and the second one got a
\* response with content.
SecondAttemptSucceeds ==
    /\ Len(attempts) >= 2
    /\ attempts[1] # "response"
    /\ attempts[2] = "response"

\* C5 as stated: when the first attempt fails and the second succeeds, the
\* call returns the text of that response after exactly 2 requests and one
\* wait of backoff_factor * 2^0 = 5 seconds.
C5_Original ==
    (Returned /\ SecondAttemptSucceeds) =>
        /\ summary = outcome.parts
        /\ requests = 2
        /\ waits = <<5>>

\* C5 amended: when the first attempt fails and the second succeeds, the
\* call returns the text of that response after exactly 2 requests and
\* exactly one wait: 5 seconds when the first attempt got an empty response
\* or a generic error, and the rate-limit wait (the suggested delay plus one,
\* or 60 seconds) when it got a rate-limit error.
C5_SecondAttempt ==
    (Returned /\ SecondAttemptSucceeds) =>
        /\ summary = outcome.parts
        /\ summary # <<>>
        /\ requests = 2
        /\ Len(waits) = 1
        /\ attempts[1] \in {"empty", "error"} => waits = <<5>>
        /\ attempts[1] = "rate limit" =>
              waits[1] \in { d + 1 : d \in RetryDelays } \cup {60}

\* C5 witness: a generic error, then a response with content.
C5_Witness ==
    /\ Returned
    /\ attempts = <<"error", "response">>
    /\ waits = <<5>>

\* The last request of the current call raised a rate-limit error whose
\* message is s.
RateLimited(s) ==
    /\ outcome.kind = "error"
    /\ outcome.str = s

\* C6: after a rate-limit error that suggests a retry delay of d seconds the
\* call waits d + 1 seconds; after one without a delay it waits 60 seconds.
C6_RateLimitWait ==
    /\ \A d \in RetryDelays :
         RateLimited(RateLimitErrorWithDelay(d)) =>
             /\ Len(waits) = requests
             /\ waits[Len(waits)] = d + 1
    /\ RateLimited(<<"429", "Resource exhausted">>) =>
             /\ Len(waits) = requests
             /\ waits[Len(waits)] = 60

\* C6 witness: a rate-limit error with a delay, then one without.
C6_Witness ==
    /\ RateLimited(<<"429", "Resource exhausted">>)
    /\ waits = <<MaxRetryDelay + 1, 60>>

\* The number of entries main processes of feeds with the given numbers of
\* entries: the first MAX_ENTRIES_PER_FEED of each.
RECURSIVE Retained(_)
Retained(sizes) ==
    IF sizes = <<>>
    THEN 0
    ELSE Min(MAX_ENTRIES_PER_FEED, Head(sizes)) + Retained(Tail(sizes))

\* The run is past its loop over the feeds.
FeedsDone == pc \in {"assemble", "send", "complete", "done"}

\* C7: a run that passes the credential check collects one record for every
\* entry it processes, whatever extraction and summarization do: a record
\* with a non-empty summary for every article fetched, and at the end of the
\* loop one for each of the first min(3, entries) entries of each feed.
C7_OneRecordPerEntry ==
    /\ pc \in {"pace", "entries", "feeds"} \/ FeedsDone =>
          Len(all_summaries) = fetches
    /\ \A k \in 1..Len(all_summaries) : Len(all_summaries[k].summary) > 0
    /\ FeedsDone =>
          /\ Len(parsed) = Len(FEEDS)
          /\ Len(all_summaries) = Retained(parsed)

\* C7 witness: a finished run over a feed of more than 3 entries, with a
\* record of a failed extraction and a record of a failed summarization.
C7_Witness ==
    /\ pc = "done"
    /\ \E f \in 1..Len(parsed) : parsed[f] > MAX_ENTRIES_PER_FEED
    /\ \E k \in 1..Len(all_summaries) : all_summaries[k].summary = MSG_NO_BODY
    /\ \E k \in 1..Len(all_summaries) : all_summaries[k].summary = MSG_RETRY_LIMIT

\* C8: without the summarization credential main returns at once: no feed
\* is parsed, no article fetched, no request issued, no wait made, no digest
\* built and no mail sent.
C8_AbortWithoutCredential ==
    (~GEMINI_API_KEY /\ pc # "main") =>
        /\ pc = "aborted"
        /\ parsed = <<>>
        /\ fetches = 0
        /\ lastNet = "none"
        /\ all_summaries = <<>>
        /\ html = NoDigest
        /\ sendCalls = 0
        /\ sendResult = "none"

\* C8 witness: the run aborted on the missing credential.
C8_Witness == ~GEMINI_API_KEY /\ pc = "aborted"

\* The run has ended: main returned.
Ended == pc \in {"done", "aborted"}

\* C9: sg.send is called at most once in a run, also when it raises; at the
\* end of the run it has been called exactly when there is at least one
\* record and the mail key, the recipient and the sender are all present.
C9_SendAtMostOnce ==
    /\ sendCalls <= 1
    /\ sendResult \in {"202", "raised"} => sendCalls = 1
    /\ Ended =>
          (sendCalls = 1 <=>
              /\ all_summaries # <<>>
              /\ SENDGRID_API_KEY /\ TO_EMAIL /\ FROM_EMAIL)

\* C9 witness: a finished run with records and the recipient alone missing,
\* without a send call.
C9_Witness ==
    /\ pc = "done"
    /\ all_summaries # <<>>
    /\ SENDGRID_API_KEY /\ ~TO_EMAIL /\ FROM_EMAIL
    /\ sendCalls = 0

\* C10: when sg.send raises, send_email returns normally: no exception
\* escapes it, and main goes on to its last statement and ends normally.
C10_SendFailureNotFatal ==
    /\ pc # "send raised"
    /\ sendResult = "raised" => pc \in {"complete", "done"}

\* C10 witness: the run ended normally after sg.send raised.
C10_Witness == pc = "done" /\ sendResult = "raised"

\* The (source, title) pairs of the entries main processes of feeds with the
\* given numbers of entries, from feed f on: feeds in the order of FEEDS, the
\* first MAX_ENTRIES_PER_FEED entries of each in the feed's order.
RECURSIVE ExpectedFrom(_, _)
ExpectedFrom(sizes, f) ==
    IF f > Len(sizes)
    THEN <<>>
    ELSE [k \in 1..Min(MAX_ENTRIES_PER_FEED, sizes[f]) |-> <<FEEDS[f], k>>]
           \o ExpectedFrom(sizes, f + 1)

\* Block b renders record r: its link, and its summary with every newline
\* turned into a line break and nothing else changed.
Renders(b, r) ==
    /\ b.link = r.link
    /\ Len(b.summary) = Len(r.summary)
    /\ \A j \in 1..Len(r.summary) :
         IF r.summary[j] = "\n"
         THEN b.summary[j] = "<br>"
         ELSE b.summary[j] = r.summary[j]

\* C11: the digest holds exactly one block per collected record, in the
\* order of the configured feeds and, within a feed, of its first
\* MAX_ENTRIES_PER_FEED entries; send_email is called at most once, with that
\* digest as html_content.
C11_DigestBlocksInOrder ==
    /\ Len(dispatched) <= 1
    /\ (pc \in {"send", "complete", "done"} /\ all_summaries # <<>>) =>
          /\ Len(html.blocks) = Len(all_summaries)
          /\ [k \in 1..Len(html.blocks) |->
                <<html.blocks[k].source, html.blocks[k].title>>]
               = ExpectedFrom(parsed, 1)
          /\ \A k \in 1..Len(html.blocks) :
                Renders(html.blocks[k], all_summaries[k])
          /\ pc \in {"complete", "done"} => dispatched = <<html>>

\* C11 witness: one feed with 2 entries, both summarized, gives a digest of
\* 2 blocks in feed order, dispatched once.
C11_Witness ==
    /\ pc = "done"
    /\ parsed = <<2, 0, 0>>
    /\ Len(html.blocks) = 2
    /\ html.blocks[1].title = 1 /\ html.blocks[2].title = 2
    /\ \A k \in 1..2 : html.blocks[k].summary = <<"point 1", "<br>", "point 2">>
    /\ dispatched = <<html>>

\* C12: every pacing wait of main lasts 31 seconds, and the processing of an
\* entry (its extraction and its summarization requests) starts only after
\* the pacing wait that follows the record of the entry before it.
C12_PacingBetweenEntries ==
    /\ \A k \in 1..Len(pacing) : pacing[k] = 31
    /\ fetches <= Len(pacing) + 1
    /\ pc \in {"extract", "summarize", "attempt", "returned"} =>
          Len(pacing) = Len(all_summaries)
    /\ (pc = "extract" /\ all_summaries # <<>>) => lastNet = "sleep"

\* C12 witness: the first entry of the second feed is about to be extracted
\* after the pacing wait of the one entry of the first feed.
C12_Witness ==
    /\ pc = "extract"
    /\ feedIdx = 2
    /\ Len(all_summaries) = 1
    /\ pacing = <<31>>

\* C13 as stated: every rate-limit wait of a call is followed by a further
\* attempt of that call, also when the rate-limit error came at the last
\* allowed index.
C13_Original ==
    Returned =>
        \A k \in 1..Len(attempts) :
            attempts[k] = "rate limit" => Len(attempts) > k

\* C14: an attempt before the last that ends in an empty response or a
\* generic error is followed by a wait of backoff_factor * 2^index seconds
\* (5 after the first, 10 after the second) whatever the earlier attempts
\* did, and then by the attempt of the next index.
C14_BackoffSchedule ==
    \A k \in 1..Len(attempts) :
        (k < retries /\ attempts[k] \in {"empty", "error"}) =>
            /\ Len(waits) >= k
            /\ waits[k] = backoff_factor * 2 ^ (k - 1)
            /\ k = 1 => waits[k] = 5
            /\ k = 2 => waits[k] = 10
            /\ Len(attempts) = k => pc = "attempt" /\ i = k

\* C14 witness: the third attempt is due 10 seconds after an empty response
\* that followed a rate-limit error.
C14_Witness ==
    /\ pc = "attempt"
    /\ i = 2
    /\ attempts = <<"rate limit", "empty">>
    /\ waits = <<60, 10>>

\* The failure message of an exception whose message is s.
ErrorFailure(s) == MSG_FAILED \o MSG_API_ERROR \o s

\* C15: when the last allowed attempt ends in an empty response or a generic
\* error, the call returns without a further wait, and the message it
\* returns embeds the finish reason, or the error, of that attempt.
C15_LastAttemptFails ==
    (Returned /\ Len(attempts) = retries
              /\ attempts[retries] \in {"empty", "error"}) =>
        /\ Len(waits) = retries - 1
        /\ lastNet = "request"
        /\ outcome.kind = "error" => summary = ErrorFailure(outcome.str)
        /\ outcome.kind = "response" =>
              /\ outcome.block_reason = "SAFETY" =>
                    summary = EmptyFailure("SAFETY")
              /\ outcome.block_reason = "raises" =>
                    summary = EmptyFailure(REASON_UNKNOWN)

\* C15 witness: a generic error at the last index, after an empty response
\* and a rate-limit error.
C15_Witness ==
    /\ Returned
    /\ attempts = <<"empty", "rate limit", "error">>
    /\ summary = ErrorFailure(<<"500", "Internal error">>)

\* The texts the backend generates: those of its responses with content.
GeneratedTexts == { r.parts : r \in { x \in Responses : x.parts # <<>> } }

\* C16: the call returns a generated summary exactly when one of its
\* attempts got a response with content; that attempt is the last one, no
\* request and no wait follows it, and the value returned is its text,
\* unchanged.
C16_FirstSuccessWins ==
    Returned =>
        /\ summary \in GeneratedTexts <=>
              \E k \in 1..Len(attempts) : attempts[k] = "response"
        /\ \A k \in 1..Len(attempts) :
              attempts[k] = "response" =>
                  /\ k = Len(attempts)
                  /\ requests = k
                  /\ Len(waits) = k - 1
                  /\ lastNet = "request"
                  /\ summary = outcome.parts

\* C16 witness: a response with content at the third attempt.
C16_Witness ==
    /\ Returned
    /\ attempts = <<"empty", "rate limit", "response">>
    /\ summary = <<"point 1", "\n", "point 2">>

\* C17: every run ends: main returns, at its last statement or on the missing
\* credential, and on the way no call of summarize_text_with_gemini makes
\* more than retries requests or more than retries waits.
C17_RunTerminates ==
    /\ <>Ended
    /\ [](requests <= retries /\ Len(waits) <= retries)

\* C17 witness: a run ended normally although one article used up all its
\* attempts and the mail transport raised.
C17_Witness ==
    /\ pc = "done"
    /\ \E k \in 1..Len(all_summaries) :
         all_summaries[k].summary = MSG_RETRY_LIMIT
    /\ sendResult = "raised"

\* C18: the call returns the fixed retry-limit message exactly when the
\* attempt at the last allowed index raised a rate-limit error; it has then
\* made retries requests and retries waits, the last of them the rate-limit
\* wait (the suggested delay plus one, or 60 seconds) after the last request.
C18_RetryLimitMessage ==
    Returned =>
        /\ summary = MSG_RETRY_LIMIT <=>
              Len(attempts) = retries /\ attempts[retries] = "rate limit"
        /\ summary = MSG_RETRY_LIMIT =>
              /\ requests = retries
              /\ Len(waits) = retries
              /\ lastNet = "sleep"
              /\ waits[retries] \in { d + 1 : d \in RetryDelays } \cup {60}

\* C18 witness: a rate-limit error with a suggested delay at the last index,
\* after two backoff waits.
C18_Witness ==
    /\ Returned
    /\ summary = MSG_RETRY_LIMIT
    /\ waits = <<5, 10, MaxRetryDelay + 1>>

\* C19: whenever a request is about to be issued, within an article or for
\* the next one, the run has slept since its last request.
C19_WaitBetweenRequests ==
    pc = "attempt" => lastNet # "request"

\* C19 witness: the first request of an article is due after the pacing wait
\* that followed an article summarized at its first request.
C19_Witness ==
    /\ pc = "attempt"
    /\ i = 0
    /\ lastNet = "sleep"
    /\ all_summaries # <<>>
    /\ all_summaries[Len(all_summaries)].summary \in GeneratedTexts

\* C20: main makes one pacing wait per record: the waits are as many as the
\* records except between an append and its wait, so also after the last
\* entry of the last feed and after an entry without text.
C20_OnePacingWaitPerRecord ==
    /\ pc = "pace" => Len(pacing) + 1 = Len(all_summaries)
    /\ pc # "pace" => Len(pacing) = Len(all_summaries)

\* C20 witness: the feeds are done and the wait after the last record, one
\* of an entry without text, has been made.
C20_Witness ==
    /\ pc = "assemble"
    /\ all_summaries # <<>>
    /\ all_summaries[Len(all_summaries)].summary = MSG_NO_BODY
    /\ Len(pacing) = Len(all_summaries)
    /\ lastNet = "sleep"
    /\ failures = 0

====
